---------------------------- MODULE Spec2Model ----------------------------
(***************************************************************************)
(* xarray-dataclasses: the runtime functions of common.py (get_attrs,      *)
(* get_coords, get_data, get_name, _gen_fields, _to_dataarray) and the     *)
(* factory functions of methods.py (new, empty, zeros, ones, full).        *)
(*                                                                         *)
(* Numbers are kept in halves: the integer n stands for n/2, so that a     *)
(* cast float -> int (truncation) is visible.  A Python scalar is          *)
(* [kind, n]; an array-like value and a numpy array are                    *)
(* [shape, kind, flat] with flat in row-major (C) order; a DataArray is    *)
(* [dims, shape, dtype, flat, name, attrs].  A call either returns         *)
(* [status |-> "ok", value |-> v] or raises                                *)
(* [status |-> "error", type |-> t, msg |-> m].                            *)
(***************************************************************************)
EXTENDS Integers, Sequences, FiniteSets, TLC

VARIABLES inst, bound, call, op, out

vars == <<inst, bound, call, op, out>>

(* ------------------------------ bounds -------------------------------- *)

\* largest rank of a value and longest dimension specification
MaxRank == 2

\* largest extent of one axis of a value
MaxExtent == 2

\* largest number of fields of a dataclass instance
MaxFields == 2

(* --------------------------- Python values ---------------------------- *)

None == "None"

EmptyMap == [k \in {} |-> 0]

Ok(v) == [status |-> "ok", value |-> v]

Raise(t, m) == [status |-> "error", type |-> t, msg |-> m]

PyInt(i) == [kind |-> "int", n |-> 2 * i]

PyFloatHalves(h) == [kind |-> "float", n |-> h]

PyStr(s) == [kind |-> "str", s |-> s]

IsScalar(v) == "n" \in DOMAIN v

RECURSIVE Prod(_)
Prod(shape) == IF shape = <<>> THEN 1 ELSE Head(shape) * Prod(Tail(shape))

\* the multi-index (0-based) of the k-th (0-based) element in row-major order
Unravel(k, shape) ==
  [j \in 1..Len(shape) |->
     (k \div Prod(SubSeq(shape, j + 1, Len(shape)))) % shape[j]]

RECURSIVE Ravel(_, _)
Ravel(idx, shape) ==
  IF shape = <<>> THEN 0
  ELSE Head(idx) * Prod(Tail(shape)) + Ravel(Tail(idx), Tail(shape))

\* an array-like whose k-th element (row-major) is start + k
Ramp(shape, kind, start) ==
  [shape |-> shape, kind |-> kind,
   flat |-> [k \in 1..Prod(shape) |-> start + 2 * (k - 1)]]

(* ------------------------------- numpy -------------------------------- *)

\* numpy's cast of one number (in halves) to a dtype: float -> int truncates
\* toward zero, int -> float keeps the value
CastNum(n, dtype) ==
  IF dtype = "int"
  THEN IF n >= 0 THEN 2 * (n \div 2) ELSE 0 - 2 * ((0 - n) \div 2)
  ELSE n

ShapeOf(data) == IF IsScalar(data) THEN <<>> ELSE data.shape

KindOf(data) == data.kind

FlatOf(data) == IF IsScalar(data) THEN <<data.n>> ELSE data.flat

\* np.asarray(data, dtype): dtype None keeps the natural dtype of the input
NpAsarray(data, dtype) ==
  LET kind == IF dtype = None THEN KindOf(data) ELSE dtype
  IN  [shape |-> ShapeOf(data), kind |-> kind,
       flat |-> [k \in 1..Prod(ShapeOf(data)) |-> CastNum(FlatOf(data)[k], kind)]]

\* assignment into an array strips the leading length-1 axes a source has
\* in excess of the destination
RECURSIVE StripOnes(_, _)
StripOnes(src, rank) ==
  IF Len(src) > rank /\ Head(src) = 1 THEN StripOnes(Tail(src), rank) ELSE src

Broadcastable(src, dst) ==
  /\ Len(src) <= Len(dst)
  /\ \A j \in 1..Len(src) :
       src[j] = 1 \/ src[j] = dst[j + Len(dst) - Len(src)]

\* the (1-based) flat position in a source of shape src that lands on the
\* k-th (1-based) element of a destination of shape dst
BroadcastFrom(k, src, dst) ==
  LET idx == Unravel(k - 1, dst)
      off == Len(dst) - Len(src)
      sidx == [j \in 1..Len(src) |-> IF src[j] = 1 THEN 0 ELSE idx[j + off]]
  IN  Ravel(sidx, src) + 1

\* np.full(shape, fill_value, dtype): the memory order does not change the
\* contents
NpFull(shape, fill_value, dtype) ==
  LET kind == IF dtype = None THEN KindOf(fill_value) ELSE dtype
      src == StripOnes(ShapeOf(fill_value), Len(shape))
  IN  IF ~Broadcastable(src, shape)
      THEN Raise("ValueError", "could not broadcast input array")
      ELSE Ok([shape |-> shape, kind |-> kind,
               flat |-> [k \in 1..Prod(shape) |->
                           CastNum(FlatOf(fill_value)[BroadcastFrom(k, src, shape)],
                                   kind)]])

(* ------------------------------- xarray ------------------------------- *)

\* attrs=None, and attrs given as a mapping
NoAttrs == [given |-> FALSE, map |-> EmptyMap]

Attrs(m) == [given |-> TRUE, map |-> m]

DefaultDimNames == <<"dim_0", "dim_1", "dim_2", "dim_3">>

\* xr.DataArray(data, dims=dims, name=name, attrs=attrs)
XrDataArray(data, dims, name, attrs) ==
  LET labels == IF dims = None
                THEN SubSeq(DefaultDimNames, 1, Len(data.shape))
                ELSE dims
  IN  IF Len(labels) # Len(data.shape)
      THEN Raise("ValueError", "different number of dimensions on data and dims")
      ELSE Ok([dims |-> labels, shape |-> data.shape, dtype |-> data.kind,
               flat |-> data.flat, name |-> name,
               attrs |-> IF attrs.given THEN attrs.map ELSE EmptyMap])

(* ------------------------- typing (decoders) -------------------------- *)

is_attr(type_) == type_.role = "Attr"

is_coord(type_) == type_.role = "Coord"

is_data(type_) == type_.role = "Data"

is_name(type_) == type_.role = "Name"

\* type_filter(type_) for a filter given by name
Filter(type_filter, type_) ==
  CASE type_filter = "is_attr" -> is_attr(type_)
    [] type_filter = "is_coord" -> is_coord(type_)
    [] type_filter = "is_data" -> is_data(type_)
    [] type_filter = "is_name" -> is_name(type_)

get_dims(type_) == type_.dims

get_dtype(type_) == type_.dtype

(* ------------------------------ common.py ----------------------------- *)

NoSizes == [given |-> FALSE, map |-> EmptyMap]

Sizes(m) == [given |-> TRUE, map |-> m]

\* sizes.get(dim, 1) in place of sizes[dim]
SizesShapeDefaulted(sizes, dims) ==
  Ok([j \in 1..Len(dims) |->
        IF dims[j] \in DOMAIN sizes.map THEN sizes.map[dims[j]] ELSE 1])

\* sizes[dim] for dim in dims: the first missing key raises KeyError
SizesShape(sizes, dims) ==
  IF \E j \in 1..Len(dims) : dims[j] \notin DOMAIN sizes.map
  THEN Raise("KeyError", "dim")
  ELSE Ok([j \in 1..Len(dims) |-> sizes.map[dims[j]]])

\* _to_dataarray with the fallback's np.full called without the dtype
to_dataarray_uncast(data, type_, sizes) ==
  LET dims == get_dims(type_)
      dtype == get_dtype(type_)
      direct == XrDataArray(NpAsarray(data, dtype), dims, None, NoAttrs)
  IN  IF direct.status = "ok" THEN direct
      ELSE IF ~sizes.given THEN direct
      ELSE LET shape == SizesShape(sizes, dims)
           IN  IF shape.status = "error" THEN shape
               ELSE LET filled == NpFull(shape.value, data, None)
                    IN  IF filled.status = "error" THEN filled
                        ELSE XrDataArray(filled.value, dims, None, NoAttrs)

\* _to_dataarray that broadcasts whenever sizes that cover the dims are given
to_dataarray_sizes_first(data, type_, sizes) ==
  LET dims == get_dims(type_)
      dtype == get_dtype(type_)
      direct == XrDataArray(NpAsarray(data, dtype), dims, None, NoAttrs)
      shape == SizesShape(sizes, dims)
      filled == NpFull(shape.value, data, dtype)
  IN  IF sizes.given /\ shape.status = "ok" /\ filled.status = "ok"
      THEN XrDataArray(filled.value, dims, None, NoAttrs)
      ELSE direct

\* _to_dataarray that, without sizes, falls back to the value's own shape
\* under default dimension names
to_dataarray_unlabelled(data, type_, sizes) ==
  LET dims == get_dims(type_)
      dtype == get_dtype(type_)
      direct == XrDataArray(NpAsarray(data, dtype), dims, None, NoAttrs)
  IN  IF direct.status = "ok" THEN direct
      ELSE IF ~sizes.given
      THEN XrDataArray(NpAsarray(data, dtype), None, None, NoAttrs)
      ELSE LET shape == SizesShape(sizes, dims)
           IN  IF shape.status = "error" THEN shape
               ELSE LET filled == NpFull(shape.value, data, dtype)
                    IN  IF filled.status = "error" THEN filled
                        ELSE XrDataArray(filled.value, dims, None, NoAttrs)

_to_dataarray(data, type_, sizes) ==
  LET dims == get_dims(type_)
      dtype == get_dtype(type_)
      direct == XrDataArray(NpAsarray(data, dtype), dims, None, NoAttrs)
  IN  IF direct.status = "ok" THEN direct
      ELSE IF direct.type # "ValueError" THEN direct
      ELSE IF ~sizes.given THEN direct
      ELSE LET shape == SizesShape(sizes, dims)
           IN  IF shape.status = "error" THEN shape
               ELSE LET filled == NpFull(shape.value, data, dtype)
                    IN  IF filled.status = "error" THEN filled
                        ELSE XrDataArray(filled.value, dims, None, NoAttrs)

\* the field-value pairs of the instance whose type passes the filter, in
\* declaration order
_gen_fields(i, type_filter) ==
  SelectSeq(i, LAMBDA f : type_filter = None \/ Filter(type_filter, f.type))

\* a dict comprehension over field-value pairs: the first element that
\* raises ends it, otherwise the dict keyed by field name
DictOf(fields, made) ==
  IF \E i \in 1..Len(fields) : made[i].status = "error"
  THEN made[CHOOSE i \in 1..Len(fields) :
              /\ made[i].status = "error"
              /\ \A j \in 1..(i - 1) : made[j].status = "ok"]
  ELSE Ok([k \in {fields[i].name : i \in 1..Len(fields)} |->
             made[CHOOSE i \in 1..Len(fields) : fields[i].name = k].value])

\* get_attrs that wraps each value as an array
get_attrs_as_arrays(i) ==
  LET fields == _gen_fields(i, "is_attr")
  IN  DictOf(fields,
             [j \in 1..Len(fields) |-> Ok(NpAsarray(fields[j].value, None))])

get_attrs(i) ==
  LET fields == _gen_fields(i, "is_attr")
  IN  DictOf(fields, [j \in 1..Len(fields) |-> Ok(fields[j].value)])

\* get_coords that broadcasts every coordinate over all the dimensions of
\* bound_to, in the order x, y, z
get_coords_full_shape(i, bound_to) ==
  LET sizes == Sizes(bound_to)
      all == SelectSeq(<<"x", "y", "z">>, LAMBDA d : d \in DOMAIN bound_to)
      fields == _gen_fields(i, "is_coord")
  IN  DictOf(fields,
             [j \in 1..Len(fields) |->
                _to_dataarray(fields[j].value,
                              [role |-> "Coord", dims |-> all,
                               dtype |-> get_dtype(fields[j].type)],
                              sizes)])

get_coords(i, bound_to) ==
  LET sizes == Sizes(bound_to)
      fields == _gen_fields(i, "is_coord")
  IN  DictOf(fields,
             [j \in 1..Len(fields) |->
                _to_dataarray(fields[j].value, fields[j].type, sizes)])

get_data(i) ==
  LET fields == _gen_fields(i, "is_data")
      data == DictOf(fields,
                     [j \in 1..Len(fields) |->
                        _to_dataarray(fields[j].value, fields[j].type, NoSizes)])
  IN  IF data.status = "error" THEN data
      ELSE IF Cardinality(DOMAIN data.value) > 1
      THEN Raise("ValueError", "Unique Data-typed value is allowed.")
      ELSE IF Cardinality(DOMAIN data.value) = 0
      THEN Raise("ValueError", "Could not find any Data-typed values.")
      ELSE Ok(data.value[CHOOSE k \in DOMAIN data.value : TRUE])

get_name(i) ==
  LET fields == _gen_fields(i, "is_name")
      names == DictOf(fields, [j \in 1..Len(fields) |-> Ok(fields[j].value)])
  IN  IF Cardinality(DOMAIN names.value) > 1
      THEN Raise("ValueError", "Unique Name-typed value is allowed.")
      ELSE IF Cardinality(DOMAIN names.value) = 0
      THEN Ok(None)
      ELSE Ok(names.value[CHOOSE k \in DOMAIN names.value : TRUE])

(* ----------------------------- methods.py ----------------------------- *)

ORDER == "C"

\* np.zeros / np.ones / np.empty: dtype None means float; what np.empty
\* holds is whatever the memory held
NpConst(shape, dtype, order, n) ==
  LET kind == IF dtype = None THEN "float" ELSE dtype
  IN  [shape |-> shape, kind |-> kind,
       flat |-> [k \in 1..Prod(shape) |-> CastNum(n, kind)]]

\* def new(data, *, name=None, attrs=None), called with the positional
\* arguments pos and the keyword arguments kw
new(pos, kw) ==
  IF Len(pos) = 0
  THEN Raise("TypeError", "new() missing 1 required positional argument")
  ELSE IF Len(pos) > 1
  THEN Raise("TypeError", "new() takes 1 positional argument")
  ELSE XrDataArray(pos[1], None,
                   IF "name" \in DOMAIN kw THEN kw.name ELSE None,
                   IF "attrs" \in DOMAIN kw THEN kw.attrs ELSE NoAttrs)

empty(shape, dtype, order, name, attrs, junk) ==
  new(<<NpConst(shape, dtype, order, junk), name, attrs>>, EmptyMap)

zeros(shape, dtype, order, name, attrs) ==
  new(<<NpConst(shape, dtype, order, 0), name, attrs>>, EmptyMap)

ones(shape, dtype, order, name, attrs) ==
  new(<<NpConst(shape, dtype, order, 2), name, attrs>>, EmptyMap)

full(shape, fill_value, dtype, order, name, attrs) ==
  LET filled == NpFull(shape, fill_value, dtype)
  IN  IF filled.status = "error" THEN filled
      ELSE new(<<filled.value, name, attrs>>, EmptyMap)

(* ------------------------------ inputs -------------------------------- *)

DimNames == {"x", "y", "z"}

Dtypes == {None, "int", "float"}

RECURSIVE SeqsUpTo(_, _)
SeqsUpTo(S, n) ==
  IF n = 0 THEN {<<>>}
  ELSE LET shorter == SeqsUpTo(S, n - 1)
       IN  shorter \cup {Append(s, e) : s \in shorter, e \in S}

\* dimension specifications: dimension names in order, none repeated
DimSpecs ==
  {d \in SeqsUpTo(DimNames, MaxRank) :
     \A i, j \in 1..Len(d) : i # j => d[i] # d[j]}

Shapes == SeqsUpTo(1..MaxExtent, MaxRank) \ {<<>>}

Scalars == {PyInt(0), PyInt(1), PyFloatHalves(3), PyFloatHalves(-3)}

Values ==
  Scalars \cup {Ramp(s, "int", 0) : s \in Shapes}
          \cup {Ramp(s, "float", -3) : s \in Shapes}

\* the sizes of a DataArray or Dataset: extents of some of the dimensions
SizeMaps ==
  UNION {[S -> {MaxExtent - 1, MaxExtent}] : S \in SUBSET DimNames}

ArrayTypes(role) ==
  {[role |-> role, dims |-> d, dtype |-> t] : d \in DimSpecs, t \in Dtypes}

(* ------------------ the materializer called on its own ----------------- *)

NoCall == EmptyMap

InitM ==
  /\ inst = <<>>
  /\ bound = EmptyMap
  /\ call \in {[data |-> v, type_ |-> t, sizes |-> s] :
                 v \in Values, t \in ArrayTypes("Coord"),
                 s \in {NoSizes} \cup {Sizes(m) : m \in SizeMaps}}
  /\ op = "init"
  /\ out = None

ToDataarray ==
  /\ op = "init"
  /\ op' = "_to_dataarray"
  /\ out' = _to_dataarray(call.data, call.type_, call.sizes)
  /\ UNCHANGED <<inst, bound, call>>

NextM == ToDataarray

SpecM == InitM /\ [][NextM]_vars

(* ------------------------- dataclass instances ------------------------ *)

\* the i-th declared field bears the i-th of these names
FieldNames == <<"red", "x", "y", "dpi", "green", "blue">>

FieldDims == {<<"x">>, <<"y">>, <<"y", "x">>}

FieldDtypes == {"int", "float"}

FieldData == {PyInt(0), Ramp(<<MaxExtent>>, "float", -3)}

PlainType(role) == [role |-> role, dims |-> <<>>, dtype |-> None]

\* a field's declared type and runtime value
FieldKinds ==
  {[type |-> [role |-> r, dims |-> d, dtype |-> t], value |-> v] :
     r \in {"Data", "Coord"}, d \in FieldDims, t \in FieldDtypes, v \in FieldData}
  \cup {[type |-> PlainType("Attr"), value |-> v] : v \in {PyInt(100), PyStr("dpi")}}
  \cup {[type |-> PlainType("Name"), value |-> PyStr("image")]}
  \cup {[type |-> PlainType("Other"), value |-> PyInt(1)]}

Instances ==
  {[i \in 1..Len(ks) |->
      [name |-> FieldNames[i], type |-> ks[i].type, value |-> ks[i].value]] :
     ks \in SeqsUpTo(FieldKinds, MaxFields)}

\* the sizes of the DataArray or Dataset the coordinates are bound to
BoundSizes ==
  {[d \in S |-> IF d = "x" THEN MaxExtent ELSE MaxExtent + 1] :
     S \in {{"x", "y"}, {"x"}, {}}}

Init ==
  /\ inst \in Instances
  /\ bound \in BoundSizes
  /\ call = NoCall
  /\ op = "init"
  /\ out = None

GetAttrs ==
  /\ op = "init"
  /\ op' = "get_attrs"
  /\ out' = get_attrs(inst)
  /\ UNCHANGED <<inst, bound, call>>

GetCoords ==
  /\ op = "init"
  /\ op' = "get_coords"
  /\ out' = get_coords(inst, bound)
  /\ UNCHANGED <<inst, bound, call>>

GetData ==
  /\ op = "init"
  /\ op' = "get_data"
  /\ out' = get_data(inst)
  /\ UNCHANGED <<inst, bound, call>>

GetName ==
  /\ op = "init"
  /\ op' = "get_name"
  /\ out' = get_name(inst)
  /\ UNCHANGED <<inst, bound, call>>

Next == GetAttrs \/ GetCoords \/ GetData \/ GetName

Spec == Init /\ [][Next]_vars

(* --------------------------- factory calls ---------------------------- *)

ArrayNames == {None, "image"}

ArrayAttrs == {NoAttrs, Attrs([dpi |-> PyInt(100)])}

Orders == {"C", "F"}

FactoryCalls ==
  {[shape |-> s, fill_value |-> v, dtype |-> t, order |-> o, name |-> n, attrs |-> a] :
     s \in Shapes \cup {<<>>}, v \in {PyInt(1), PyFloatHalves(3)},
     t \in Dtypes, o \in Orders, n \in ArrayNames, a \in ArrayAttrs}

InitF ==
  /\ inst = <<>>
  /\ bound = EmptyMap
  /\ call = NoCall
  /\ op = "init"
  /\ out = None

New ==
  /\ op = "init"
  /\ \E c \in FactoryCalls :
       /\ call' = c
       /\ out' = new(<<NpFull(c.shape, c.fill_value, c.dtype).value>>,
                     [name |-> c.name, attrs |-> c.attrs])
  /\ op' = "new"
  /\ UNCHANGED <<inst, bound>>

Empty ==
  /\ op = "init"
  /\ \E c \in FactoryCalls, junk \in {0, 3} :
       /\ call' = c
       /\ out' = empty(c.shape, c.dtype, c.order, c.name, c.attrs, junk)
  /\ op' = "empty"
  /\ UNCHANGED <<inst, bound>>

Zeros ==
  /\ op = "init"
  /\ \E c \in FactoryCalls :
       /\ call' = c
       /\ out' = zeros(c.shape, c.dtype, c.order, c.name, c.attrs)
  /\ op' = "zeros"
  /\ UNCHANGED <<inst, bound>>

Ones ==
  /\ op = "init"
  /\ \E c \in FactoryCalls :
       /\ call' = c
       /\ out' = ones(c.shape, c.dtype, c.order, c.name, c.attrs)
  /\ op' = "ones"
  /\ UNCHANGED <<inst, bound>>

Full ==
  /\ op = "init"
  /\ \E c \in FactoryCalls :
       /\ call' = c
       /\ out' = full(c.shape, c.fill_value, c.dtype, c.order, c.name, c.attrs)
  /\ op' = "full"
  /\ UNCHANGED <<inst, bound>>

NextF == New \/ Empty \/ Zeros \/ Ones \/ Full

SpecF == InitF /\ [][NextF]_vars

(* ------------------------------- claims ------------------------------- *)

FieldsOf(role) == SelectSeq(inst, LAMBDA f : f.type.role = role)

RankOf(data) == Len(ShapeOf(data))

SchemaErrors ==
  {"Unique Data-typed value is allowed.", "Could not find any Data-typed values."}

\* C1: get_data on a record with exactly one Data field gives that field's
\* value materialized with no size mapping; with no Data field it fails with
\* "Could not find any Data-typed values."; with two or more it fails with
\* "Unique Data-typed value is allowed."; there is no other outcome.
C1_GetDataOutcomes ==
  op = "get_data" =>
    LET fields == FieldsOf("Data")
    IN  /\ Len(fields) = 1 =>
             out = _to_dataarray(fields[1].value, fields[1].type, NoSizes)
        /\ Len(fields) = 0 =>
             out = Raise("ValueError", "Could not find any Data-typed values.")
        /\ Len(fields) > 1 =>
             out = Raise("ValueError", "Unique Data-typed value is allowed.")

\* C10: for a record with zero or with two or more Data fields, get_data
\* fails with a schema error whatever the field values are, also when a value
\* does not match its declared dims: no materialization error takes its place.
C10_SchemaErrorFirst ==
  (op = "get_data" /\ Len(FieldsOf("Data")) # 1) =>
    /\ out.status = "error"
    /\ out.type = "ValueError"
    /\ out.msg \in SchemaErrors

\* C2: when a scalar value does not fit the declared dims and the sizes hold
\* every declared dim, the result has shape (sizes[d] for d in dims), the
\* declared dims in order, and every element is the value cast to the
\* declared dtype.
C2_BroadcastFallback ==
  (/\ op = "_to_dataarray"
   /\ IsScalar(call.data)
   /\ Len(call.type_.dims) # 0
   /\ call.sizes.given
   /\ \A j \in 1..Len(call.type_.dims) : call.type_.dims[j] \in DOMAIN call.sizes.map)
  =>
    LET dims == call.type_.dims
        kind == IF call.type_.dtype = None THEN call.data.kind ELSE call.type_.dtype
    IN  /\ out.status = "ok"
        /\ out.value.dims = dims
        /\ out.value.shape = [j \in 1..Len(dims) |-> call.sizes.map[dims[j]]]
        /\ out.value.dtype = kind
        /\ DOMAIN out.value.flat = 1..Prod(out.value.shape)
        /\ \A k \in DOMAIN out.value.flat :
             out.value.flat[k] = CastNum(call.data.n, kind)

\* a scalar 1.5 declared int over (y, x) is broadcast over sizes with
\* different extents for x and y
C2_Witness ==
  /\ op = "_to_dataarray"
  /\ call.data = PyFloatHalves(3)
  /\ call.type_.dims = <<"y", "x">>
  /\ call.type_.dtype = "int"
  /\ call.sizes.given
  /\ DOMAIN call.sizes.map = {"x", "y", "z"}
  /\ call.sizes.map["x"] # call.sizes.map["y"]
  /\ out.status = "ok"
  /\ out.value.shape = <<call.sizes.map["y"], call.sizes.map["x"]>>
  /\ out.value.flat[1] = 2

\* C3: when the value's rank equals the number of declared dims, the result
\* is the value's own contents, cast to the declared dtype and labelled with
\* the dims, with or without sizes and whatever extents the sizes hold.
C3_DirectPathPrecedence ==
  (op = "_to_dataarray" /\ RankOf(call.data) = Len(call.type_.dims)) =>
    LET kind == IF call.type_.dtype = None THEN call.data.kind ELSE call.type_.dtype
    IN  /\ out.status = "ok"
        /\ out.value.dims = call.type_.dims
        /\ out.value.shape = ShapeOf(call.data)
        /\ out.value.dtype = kind
        /\ DOMAIN out.value.flat = 1..Prod(ShapeOf(call.data))
        /\ \A k \in DOMAIN out.value.flat :
             out.value.flat[k] = CastNum(FlatOf(call.data)[k], kind)

\* a value of shape (1, 1) over (x, y) with sizes x: MaxExtent, y: MaxExtent,
\* to which it could be broadcast, comes back with its own shape
C3_Witness ==
  /\ op = "_to_dataarray"
  /\ ~IsScalar(call.data)
  /\ call.data.shape = <<1, 1>>
  /\ call.type_.dims = <<"x", "y">>
  /\ call.sizes.given
  /\ DOMAIN call.sizes.map = {"x", "y"}
  /\ call.sizes.map["x"] = MaxExtent
  /\ call.sizes.map["y"] = MaxExtent
  /\ out.status = "ok"
  /\ out.value.shape = <<1, 1>>

\* C4: without sizes, a value whose rank differs from the number of declared
\* dims makes the call fail with the error of the direct path.
C4_NoSizesShapeFailure ==
  (/\ op = "_to_dataarray"
   /\ ~call.sizes.given
   /\ RankOf(call.data) # Len(call.type_.dims))
  => out = Raise("ValueError", "different number of dimensions on data and dims")

C4_Witness ==
  /\ op = "_to_dataarray"
  /\ ~call.sizes.given
  /\ IsScalar(call.data)
  /\ call.type_.dims = <<"x", "y">>
  /\ out.status = "error"

DimsBound(f) == \A j \in 1..Len(f.type.dims) : f.type.dims[j] \in DOMAIN bound

\* C5: get_coords returns one entry per Coord field, keyed by field name, and
\* a scalar-valued Coord field with dims D has shape (bound_to.sizes[d] for d
\* in D); it returns when every Coord field is a scalar whose dims are all
\* dimensions of bound_to.
C5_CoordinateBinding ==
  op = "get_coords" =>
    LET fields == FieldsOf("Coord")
    IN  /\ (\A j \in 1..Len(fields) : IsScalar(fields[j].value) /\ DimsBound(fields[j]))
             => out.status = "ok"
        /\ out.status = "ok" =>
             /\ DOMAIN out.value = {fields[j].name : j \in 1..Len(fields)}
             /\ \A j \in 1..Len(fields) :
                  IsScalar(fields[j].value) =>
                    LET D == fields[j].type.dims
                        got == out.value[fields[j].name]
                    IN  /\ DimsBound(fields[j])
                        /\ got.dims = D
                        /\ got.shape = [k \in 1..Len(D) |-> bound[D[k]]]

\* two scalar coordinates, over x and over y, bound to data over (x, y)
C5_Witness ==
  /\ op = "get_coords"
  /\ DOMAIN bound = {"x", "y"}
  /\ Len(inst) = 2
  /\ \A j \in 1..2 : inst[j].type.role = "Coord" /\ inst[j].value = PyInt(0)
  /\ inst[1].type.dims = <<"x">>
  /\ inst[2].type.dims = <<"y">>
  /\ out.status = "ok"
  /\ out.value[inst[1].name].shape = <<MaxExtent>>
  /\ out.value[inst[2].name].shape = <<MaxExtent + 1>>

\* C6 as stated: when a declared dim of some Coord field is absent from the
\* sizes of bound_to, get_coords fails, whatever the field's value.
C6_MissingDimAlwaysFails ==
  (/\ op = "get_coords"
   /\ \E j \in 1..Len(inst) : inst[j].type.role = "Coord" /\ ~DimsBound(inst[j]))
  => out.status = "error"

\* C6 amended: when a declared dim of some Coord field is absent from the
\* sizes of bound_to and that field's value has a rank other than the number
\* of its declared dims, get_coords fails.
C6_MissingDimFailsOnFallback ==
  (/\ op = "get_coords"
   /\ \E j \in 1..Len(inst) :
        /\ inst[j].type.role = "Coord"
        /\ ~DimsBound(inst[j])
        /\ RankOf(inst[j].value) # Len(inst[j].type.dims))
  => out.status = "error"

\* a scalar coordinate over (y, x) bound to data over x alone
C6_Witness ==
  /\ op = "get_coords"
  /\ DOMAIN bound = {"x"}
  /\ Len(inst) = 1
  /\ inst[1].type.role = "Coord"
  /\ inst[1].type.dims = <<"y", "x">>
  /\ IsScalar(inst[1].value)
  /\ out.status = "error"

\* C7: every failure of get_data, get_name and get_coords is a ValueError.
C7_OnlyValueErrors ==
  (op \in {"get_data", "get_name", "get_coords"} /\ out.status = "error")
  => out.type = "ValueError"

\* C8: get_attrs returns the Attr fields, keyed by name, each with the
\* field's value as it is; no other field appears.
C8_AttrPassthrough ==
  op = "get_attrs" =>
    LET fields == FieldsOf("Attr")
    IN  /\ out.status = "ok"
        /\ DOMAIN out.value = {fields[j].name : j \in 1..Len(fields)}
        /\ \A j \in 1..Len(fields) : out.value[fields[j].name] = fields[j].value

\* a Data field next to an Attr field of value 100
C8_Witness ==
  /\ op = "get_attrs"
  /\ Len(inst) = 2
  /\ inst[1].type.role = "Data"
  /\ inst[2].type.role = "Attr"
  /\ inst[2].value = PyInt(100)
  /\ out.status = "ok"
  /\ DOMAIN out.value = {inst[2].name}

\* C9: empty, zeros, ones and full called with dtype None and order "C"
\* return an array of the shape asked for, with the caller's name and attrs.
C9_FactoriesReturn ==
  (/\ op \in {"empty", "zeros", "ones", "full"}
   /\ call.dtype = None
   /\ call.order = ORDER)
  =>
    /\ out.status = "ok"
    /\ out.value.shape = call.shape
    /\ out.value.name = call.name
    /\ out.value.attrs = call.attrs.map

=============================================================================
